---- MODULE Spec2Model ----
(***************************************************************************)
(* The trading pipeline: TradeService -> PricingService -> PnLService ->   *)
(* RiskService.  Each service is a Flask application with an in-memory     *)
(* store; a handler runs up to its blocking requests.post, the downstream  *)
(* handler runs, and the caller resumes with the downstream outcome.       *)
(*                                                                         *)
(* A JSON field or an HTTP header is an option: <<>> when it is absent,    *)
(* <<v>> when it carries the value v.  String fields range over strings    *)
(* and numeric fields over integers, as the data model types them.         *)
(***************************************************************************)
EXTENDS Integers, Sequences, FiniteSets, TLC

(* ---------------------------------------------------------------- bounds *)

\* Number of client requests (each one starts a call chain of its own thread).
MaxChains == 2

Chains == 1..MaxChains

TradeIds == {"t1", "t2"}
\* The trace id a client may send.
ClientTraceIds == {"T1"}
\* Samples of random.uniform(-5, 5).
Deltas == {-5, 5}

\* Values of the bodies posted to /trades when the service is exercised alone.
Symbols == {"AAPL", "XXX"}
Quantities == {-10, 60}
TradePrices == {150, 155}
TradeTypes == {"buy", "sell"}
\* Values of the bodies posted to /risk when the service is exercised alone.
RiskPnlValues == {-150, -100, -50, 0, 10}
RiskQuantities == {0, 10, 50, 60}
\* Values of the bodies posted to /pnl when the service is exercised alone.
PnlSymbols == {"AAPL", "GOOGL", "MSFT", "XXX"}
PnlPrices == {150, 95}
PnlQuantities == {10, -60}

Services == {"trade", "pricing", "pnl", "risk"}

(* --------------------------------------------------------------- options *)

None == <<>>
Some(v) == <<v>>

\* Python truthiness of a string field: absent, null and "" are falsy.
TruthyStr(x) == x # None /\ x[1] # ""
\* Python truthiness of a numeric field: absent, null and 0 are falsy.
TruthyNum(x) == x # None /\ x[1] # 0

VARIABLES
    trades,    \* trade_service: dict trade_id -> Trade
    pnls,      \* pnl_service: dict trade_id -> record
    risks,     \* risk_service: dict trade_id -> record
    entry,     \* entry[c]: the service the client of chain c posted to, or "none"
    frames,    \* frames[c][s]: the handler invocation of service s in chain c
    msg,       \* msg[c]: the downstream request in flight in chain c
    gets       \* gets[c]: the GET served to the client of chain c, if it sent one

vars == <<trades, pnls, risks, entry, frames, msg, gets>>

\* str(uuid.uuid4()) evaluated by the handler of service s in chain c: a token no
\* other call returns.
uuid4(c, s) == "uuid-" \o ToString(c) \o "-" \o s

\* datetime.now().isoformat() at the request of chain c: requests are stamped in
\* the order they arrive.
now(c) == c

(* ----------------------------------------------------------- dict access *)

\* dict.get(k): the value, or None.
DictGet(d, k) == IF k \in DOMAIN d THEN Some(d[k]) ELSE None

\* Mutant: d.setdefault(k, v), which keeps the value a key already has.
DictSetDefault(d, k, v) ==
    [x \in (DOMAIN d) \cup {k} |-> IF x \in DOMAIN d THEN d[x] ELSE v]

\* Mutant: d = {k: v}, which rebinds the store to a dict of the one record.
DictRebind(d, k, v) == [x \in {k} |-> v]

\* d[k] = v
DictSet(d, k, v) == [x \in (DOMAIN d) \cup {k} |-> IF x = k THEN v ELSE d[x]]

EmptyDict == [x \in {} |-> 0]

(* ------------------------------------------------------- request bodies *)

TradeBody(t, s, q, p, ty) ==
    [trade_id |-> t, symbol |-> s, quantity |-> q, price |-> p, trade_type |-> ty]
PriceBody(t, s, q) == [trade_id |-> t, symbol |-> s, quantity |-> q]
PnlBody(t, s, p, q) == [trade_id |-> t, symbol |-> s, price |-> p, quantity |-> q]
RiskBody(t, v, q) == [trade_id |-> t, pnl_value |-> v, quantity |-> q]

\* The JSON object {} for each endpoint.
EmptyTradeBody == TradeBody(None, None, None, None, None)
EmptyPriceBody == PriceBody(None, None, None)
EmptyPnlBody == PnlBody(None, None, None, None)
EmptyRiskBody == RiskBody(None, None, None)

EmptyBody(s) ==
    CASE s = "trade" -> EmptyTradeBody
      [] s = "pricing" -> EmptyPriceBody
      [] s = "pnl" -> EmptyPnlBody
      [] s = "risk" -> EmptyRiskBody

BadStr == {None, Some("")}
BadNum == {None, Some(0)}

BaseTradeBody == TradeBody(Some("t1"), Some("AAPL"), Some(60), Some(150), Some("buy"))
BaseRiskBody == RiskBody(Some("t1"), Some(-150), Some(60))

\* Bodies the clients of the pipeline post to /trades: one valid trade per id.
TradeBodies == {[BaseTradeBody EXCEPT !.trade_id = Some(t)] : t \in TradeIds}

\* The body a client of the pipeline posts to /prices: PricingService accepts a
\* quantity of 0, PnLService rejects it.
PriceBodies == {PriceBody(Some("t1"), Some("AAPL"), Some(0))}

\* The body a client of the pipeline posts to /pnl: a price below the cost.
PnlBodies == {PnlBody(Some("t1"), Some("AAPL"), Some(130), Some(60))}

\* Bodies posted to /trades when TradeService is exercised alone: every
\* combination of the truthy values, the base body with one field absent or
\* falsy, and {}.
AnyTradeBodies ==
    {TradeBody(Some(t), Some(s), Some(q), Some(p), Some(ty)) :
        t \in TradeIds, s \in Symbols, q \in Quantities, p \in TradePrices, ty \in TradeTypes}
    \cup {[BaseTradeBody EXCEPT !.trade_id = x] : x \in BadStr}
    \cup {[BaseTradeBody EXCEPT !.symbol = x] : x \in BadStr}
    \cup {[BaseTradeBody EXCEPT !.quantity = x] : x \in BadNum}
    \cup {[BaseTradeBody EXCEPT !.price = x] : x \in BadNum}
    \cup {[BaseTradeBody EXCEPT !.trade_type = x] : x \in BadStr}
    \cup {EmptyTradeBody}

\* Bodies posted to /risk when RiskService is exercised alone: every
\* combination of the values (zero values are accepted), the base body with one
\* field absent or falsy, and {}.
AnyRiskBodies ==
    {RiskBody(Some(t), Some(v), Some(q)) :
        t \in TradeIds, v \in RiskPnlValues, q \in RiskQuantities}
    \cup {[BaseRiskBody EXCEPT !.trade_id = x] : x \in BadStr}
    \cup {[BaseRiskBody EXCEPT !.pnl_value = None]}
    \cup {[BaseRiskBody EXCEPT !.quantity = None]}
    \cup {EmptyRiskBody}

BasePnlBody == PnlBody(Some("t1"), Some("AAPL"), Some(150), Some(10))

\* Bodies posted to /pnl when PnLService is exercised alone: every combination of
\* the truthy values for one trade_id, the base body with one field absent or
\* falsy, and {}.
AnyPnlBodies ==
    {PnlBody(Some("t1"), Some(s), Some(p), Some(q)) :
        s \in PnlSymbols, p \in PnlPrices, q \in PnlQuantities}
    \cup {[BasePnlBody EXCEPT !.trade_id = x] : x \in BadStr}
    \cup {[BasePnlBody EXCEPT !.symbol = x] : x \in BadStr}
    \cup {[BasePnlBody EXCEPT !.price = x] : x \in BadNum}
    \cup {[BasePnlBody EXCEPT !.quantity = x] : x \in BadNum}
    \cup {EmptyPnlBody}

\* The X-Trace-Id header a client sends, or none.
Headers == {None} \cup {Some(t) : t \in ClientTraceIds}

(* ------------------------------------------------------------ responses *)

Response(status, body) == [status |-> status, body |-> body]
ErrorBody(text) == [error |-> text]
NoResp == Response(0, ErrorBody(""))

(* --------------------------------------------------------------- frames *)

\* pc: "idle" (never invoked), "wait" (blocked in requests.post), "done".
\* hdr: the X-Trace-Id header received; trace: the handler's trace_id.
\* val: the value the handler computed (computed_price, pnl_value, risk_level).
\* logged: the level at which the downstream outcome was logged.
Frame(pc, hdr, trace, body, val, logged, resp) ==
    [pc |-> pc, hdr |-> hdr, trace |-> trace, body |-> body, val |-> val,
     logged |-> logged, resp |-> resp]

IdleFrame(s) == Frame("idle", None, "", EmptyBody(s), None, "none", NoResp)

\* A handler that returned without calling downstream.
Returned(hdr, trace, body, val, resp) == Frame("done", hdr, trace, body, val, "none", resp)

\* A handler blocked in its downstream call.
Waiting(hdr, trace, body, val) == Frame("wait", hdr, trace, body, val, "none", NoResp)

Message(to, hdr, body) == [to |-> to, hdr |-> hdr, body |-> body]
NoMsg == Message("none", None, EmptyTradeBody)

NoGet == [service |-> "none", id |-> "", resp |-> NoResp]

\* request.headers.get('X-Trace-Id', default)
header_get(hdr, default) == IF hdr = None THEN default ELSE hdr[1]

\* Mutant: the downstream call carries no X-Trace-Id header.
trace_headers_dropped(trace_id) == None

\* headers={'X-Trace-Id': trace_id} of a downstream call.
trace_headers(trace_id) == Some(trace_id)

\* The outcome of requests.post as the caller sees it.
Raised == [raised |-> TRUE, status |-> 0]
Answered(status) == [raised |-> FALSE, status |-> status]

\* The level of the log event that records a downstream outcome.
LogLevel(outcome) ==
    IF outcome.raised THEN "error"
    ELSE IF outcome.status = 200 THEN "info" ELSE "warning"

\* The outcomes the handler of chain c blocked on service s can observe now: a
\* transport error while its request is undelivered, or the response of s.
DownstreamOutcomes(c, s) ==
    (IF msg[c].to = s THEN {Raised} ELSE {})
    \cup (IF frames[c][s].pc = "done" THEN {Answered(frames[c][s].resp.status)} ELSE {})

(* --------------------------------------------------------- TradeService *)

\* models.Trade: the record of a trade.
Trade(trade_id, symbol, quantity, price, trade_type, timestamp) ==
    [trade_id |-> trade_id, symbol |-> symbol, quantity |-> quantity, price |-> price,
     trade_type |-> trade_type, timestamp |-> timestamp]

\* Mutant: quantity and price are passed to Trade in each other's place.
create_trade_object_swapped(trade_id, symbol, quantity, price, trade_type, timestamp) ==
    Trade(trade_id, symbol, price, quantity, trade_type, timestamp)

\* timestamp: the value of datetime.now().isoformat().
create_trade_object(trade_id, symbol, quantity, price, trade_type, timestamp) ==
    Trade(trade_id, symbol, quantity, price, trade_type, timestamp)

\* Mutant: quantity is only required to be present, as in PricingService.
trade_fields_ok_quantity_present(data) ==
    /\ TruthyStr(data.trade_id)
    /\ TruthyStr(data.symbol)
    /\ data.quantity # None
    /\ TruthyNum(data.price)
    /\ TruthyStr(data.trade_type)

\* all([trade_id, symbol, quantity, price, trade_type])
trade_fields_ok(data) ==
    /\ TruthyStr(data.trade_id)
    /\ TruthyStr(data.symbol)
    /\ TruthyNum(data.quantity)
    /\ TruthyNum(data.price)
    /\ TruthyStr(data.trade_type)

\* Mutant: a failed call to PricingService is surfaced as a 502.
create_trade_result_surfaced(trade_id, outcome) ==
    IF outcome.raised \/ outcome.status # 200
    THEN Response(502, ErrorBody("Pricing service call failed"))
    ELSE Response(201, [message |-> "Trade created", trade_id |-> trade_id])

\* The response of POST /trades once the call to PricingService has ended with
\* `outcome`.
create_trade_result(trade_id, outcome) ==
    Response(201, [message |-> "Trade created", trade_id |-> trade_id])

\* POST /trades, up to the return of a 400 or to the blocking call to
\* PricingService.
create_trade(c, hdr, data) ==
    LET trace_id == header_get(hdr, uuid4(c, "trade")) IN
    IF data = EmptyTradeBody
    THEN /\ frames' = [frames EXCEPT ![c]["trade"] =
                Returned(hdr, trace_id, data, None, Response(400, ErrorBody("Invalid JSON")))]
         /\ UNCHANGED <<trades, msg>>
    ELSE IF ~trade_fields_ok(data)
    THEN /\ frames' = [frames EXCEPT ![c]["trade"] =
                Returned(hdr, trace_id, data, None,
                         Response(400, ErrorBody("Missing required fields")))]
         /\ UNCHANGED <<trades, msg>>
    ELSE LET trade_id == data.trade_id[1]
             symbol == data.symbol[1]
             quantity == data.quantity[1]
             price == data.price[1]
             trade_type == data.trade_type[1]
             trade == create_trade_object(trade_id, symbol, quantity, price, trade_type,
                                          now(c))
         IN /\ trades' = DictSet(trades, trade_id, trade)
            /\ frames' = [frames EXCEPT ![c]["trade"] = Waiting(hdr, trace_id, data, None)]
            /\ msg' = [msg EXCEPT ![c] =
                    Message("pricing", trace_headers(trace_id),
                            PriceBody(Some(trade_id), Some(symbol), Some(quantity)))]

\* Mutant: a failed call to PricingService is compensated by deleting the trade.
create_trade_return_rollback(c) ==
    /\ frames[c]["trade"].pc = "wait"
    /\ \E outcome \in DownstreamOutcomes(c, "pricing") :
         /\ frames' = [frames EXCEPT ![c]["trade"] =
                [@ EXCEPT !.pc = "done", !.logged = LogLevel(outcome),
                          !.resp = create_trade_result(
                                       frames[c]["trade"].body.trade_id[1], outcome)]]
         /\ msg' = IF outcome.raised THEN [msg EXCEPT ![c] = NoMsg] ELSE msg
         /\ trades' = IF LogLevel(outcome) = "info" THEN trades
                      ELSE [x \in (DOMAIN trades) \ {frames[c]["trade"].body.trade_id[1]}
                                |-> trades[x]]
    /\ UNCHANGED <<pnls, risks, entry>>

\* Mutant: the handler responds only once PricingService has answered 200.
create_trade_return_on_200(c) ==
    /\ frames[c]["trade"].pc = "wait"
    /\ \E outcome \in DownstreamOutcomes(c, "pricing") :
         /\ LogLevel(outcome) = "info"
         /\ frames' = [frames EXCEPT ![c]["trade"] =
                [@ EXCEPT !.pc = "done", !.logged = LogLevel(outcome),
                          !.resp = create_trade_result(
                                       frames[c]["trade"].body.trade_id[1], outcome)]]
         /\ msg' = msg
    /\ UNCHANGED <<trades, pnls, risks, entry>>

\* Mutant: the call to PricingService is handed to a background task and the 201
\* is sent without waiting for it.
create_trade_return_early(c) ==
    /\ frames[c]["trade"].pc = "wait"
    /\ frames' = [frames EXCEPT ![c]["trade"] =
           [@ EXCEPT !.pc = "done", !.logged = "info",
                     !.resp = create_trade_result(frames[c]["trade"].body.trade_id[1],
                                                  Answered(200))]]
    /\ UNCHANGED <<trades, pnls, risks, entry, msg>>

\* POST /trades, from the end of the call to PricingService to the response.
create_trade_return(c) ==
    /\ frames[c]["trade"].pc = "wait"
    /\ \E outcome \in DownstreamOutcomes(c, "pricing") :
         /\ frames' = [frames EXCEPT ![c]["trade"] =
                [@ EXCEPT !.pc = "done", !.logged = LogLevel(outcome),
                          !.resp = create_trade_result(
                                       frames[c]["trade"].body.trade_id[1], outcome)]]
         /\ msg' = IF outcome.raised THEN [msg EXCEPT ![c] = NoMsg] ELSE msg
    /\ UNCHANGED <<trades, pnls, risks, entry>>

\* GET /trades/<trade_id>
get_trade(trade_id) ==
    LET trade == DictGet(trades, trade_id) IN
    IF trade = None
    THEN Response(404, ErrorBody("Trade not found"))
    ELSE Response(200, [trade_id |-> trade[1].trade_id, symbol |-> trade[1].symbol,
                        quantity |-> trade[1].quantity, price |-> trade[1].price,
                        trade_type |-> trade[1].trade_type,
                        timestamp |-> trade[1].timestamp])

(* ------------------------------------------------------- PricingService *)

base_prices(symbol) ==
    CASE symbol = "AAPL" -> 150
      [] symbol = "GOOGL" -> 2800
      [] symbol = "MSFT" -> 300
      [] OTHER -> 100

\* delta: the value of random.uniform(-5, 5).
compute_price(symbol, delta) == base_prices(symbol) + delta

\* not trade_id or not symbol or quantity is None
price_fields_missing(data) ==
    \/ ~TruthyStr(data.trade_id)
    \/ ~TruthyStr(data.symbol)
    \/ data.quantity = None

\* The response of POST /prices once the call to PnLService has ended with
\* `outcome`.
compute_trade_price_result(trade_id, computed_price, outcome) ==
    Response(200, [trade_id |-> trade_id, computed_price |-> computed_price])

\* Mutant: the timeout is checked after the price was computed and posted to
\* PnLService.
compute_trade_price_timeout_late(c, hdr, trace_id, data) ==
    LET computed_price == compute_price(data.symbol[1], 0) IN
    /\ frames' = [frames EXCEPT ![c]["pricing"] =
           Returned(hdr, trace_id, data, Some(computed_price),
                    Response(504, ErrorBody("Timeout")))]
    /\ msg' = [msg EXCEPT ![c] =
           Message("pnl", trace_headers(trace_id),
                   PnlBody(data.trade_id, data.symbol, Some(computed_price),
                           data.quantity))]

\* POST /prices on the simulated timeout: sleeps, then answers 504.
compute_trade_price_timeout(c, hdr, trace_id, data) ==
    /\ frames' = [frames EXCEPT ![c]["pricing"] =
           Returned(hdr, trace_id, data, None, Response(504, ErrorBody("Timeout")))]
    /\ msg' = [msg EXCEPT ![c] = NoMsg]

\* POST /prices, up to the return of a 400 or 504 or to the blocking call to
\* PnLService.  timeout: random.random() < 0.1.
compute_trade_price(c, hdr, data, timeout, delta) ==
    LET trace_id == header_get(hdr, uuid4(c, "pricing")) IN
    IF data = EmptyPriceBody
    THEN /\ frames' = [frames EXCEPT ![c]["pricing"] =
                Returned(hdr, trace_id, data, None, Response(400, ErrorBody("Invalid JSON")))]
         /\ msg' = [msg EXCEPT ![c] = NoMsg]
    ELSE IF price_fields_missing(data)
    THEN /\ frames' = [frames EXCEPT ![c]["pricing"] =
                Returned(hdr, trace_id, data, None,
                         Response(400, ErrorBody("Missing trade_id, symbol, or quantity")))]
         /\ msg' = [msg EXCEPT ![c] = NoMsg]
    ELSE IF timeout
    THEN compute_trade_price_timeout(c, hdr, trace_id, data)
    ELSE LET trade_id == data.trade_id[1]
             symbol == data.symbol[1]
             quantity == data.quantity[1]
             computed_price == compute_price(symbol, delta)
         IN /\ frames' = [frames EXCEPT ![c]["pricing"] =
                    Waiting(hdr, trace_id, data, Some(computed_price))]
            /\ msg' = [msg EXCEPT ![c] =
                    Message("pnl", trace_headers(trace_id),
                            PnlBody(Some(trade_id), Some(symbol), Some(computed_price),
                                    Some(quantity)))]

\* Mutant: a call to PnLService that did not answer 200 is issued once more.
compute_trade_price_return_retry(c) ==
    /\ frames[c]["pricing"].pc = "wait"
    /\ \E outcome \in DownstreamOutcomes(c, "pnl") :
         /\ frames' = [frames EXCEPT ![c]["pricing"] =
                [@ EXCEPT !.pc = "done", !.logged = LogLevel(outcome),
                          !.resp = compute_trade_price_result(
                                       frames[c]["pricing"].body.trade_id[1],
                                       frames[c]["pricing"].val[1], outcome)]]
         /\ msg' = IF LogLevel(outcome) = "info" THEN msg
                   ELSE [msg EXCEPT ![c] =
                            Message("pnl", trace_headers(frames[c]["pricing"].trace),
                                    PnlBody(frames[c]["pricing"].body.trade_id,
                                            frames[c]["pricing"].body.symbol,
                                            frames[c]["pricing"].val,
                                            frames[c]["pricing"].body.quantity))]
    /\ UNCHANGED <<trades, pnls, risks, entry>>

\* POST /prices, from the end of the call to PnLService to the response.
compute_trade_price_return(c) ==
    /\ frames[c]["pricing"].pc = "wait"
    /\ \E outcome \in DownstreamOutcomes(c, "pnl") :
         /\ frames' = [frames EXCEPT ![c]["pricing"] =
                [@ EXCEPT !.pc = "done", !.logged = LogLevel(outcome),
                          !.resp = compute_trade_price_result(
                                       frames[c]["pricing"].body.trade_id[1],
                                       frames[c]["pricing"].val[1], outcome)]]
         /\ msg' = IF outcome.raised THEN [msg EXCEPT ![c] = NoMsg] ELSE msg
    /\ UNCHANGED <<trades, pnls, risks, entry>>

\* GET /prices/<trade_id>: PricingService registers no such route.
get_price(trade_id) == Response(404, ErrorBody("Not Found"))

(* ----------------------------------------------------------- PnLService *)

\* Mutant: the table of PricingService is used as the cost basis.
base_costs_as_prices(symbol) == base_prices(symbol)

\* base_costs.get(symbol, 90.0)
base_costs(symbol) ==
    CASE symbol = "AAPL" -> 140
      [] symbol = "GOOGL" -> 2700
      [] symbol = "MSFT" -> 280
      [] OTHER -> 90

\* all([trade_id, symbol, price, quantity])
pnl_fields_ok(data) ==
    /\ TruthyStr(data.trade_id)
    /\ TruthyStr(data.symbol)
    /\ TruthyNum(data.price)
    /\ TruthyNum(data.quantity)

\* Mutant: price and quantity are stored in each other's place.
pnl_record_swapped(pnl_value, symbol, price, quantity, cost) ==
    [pnl_value |-> pnl_value, symbol |-> symbol, price |-> quantity, quantity |-> price,
     cost |-> cost]

\* The record POST /pnl stores.
pnl_record(pnl_value, symbol, price, quantity, cost) ==
    [pnl_value |-> pnl_value, symbol |-> symbol, price |-> price, quantity |-> quantity,
     cost |-> cost]

\* The response of POST /pnl once the call to RiskService has ended with
\* `outcome`.
compute_pnl_result(trade_id, pnl_value, outcome) ==
    Response(200, [trade_id |-> trade_id, pnl_value |-> pnl_value])

\* Mutant: the record is stored before the simulated failure is drawn.
compute_pnl_failed_stored(c, hdr, trace_id, data, pnl_value) ==
    /\ frames' = [frames EXCEPT ![c]["pnl"] =
           Returned(hdr, trace_id, data, Some(pnl_value),
                    Response(500, ErrorBody("Data inconsistency")))]
    /\ msg' = [msg EXCEPT ![c] = NoMsg]
    /\ pnls' = DictSet(pnls, data.trade_id[1],
                       pnl_record(pnl_value, data.symbol[1], data.price[1],
                                  data.quantity[1], base_costs(data.symbol[1])))

\* POST /pnl on the simulated data inconsistency: answers 500.
compute_pnl_failed(c, hdr, trace_id, data, pnl_value) ==
    /\ frames' = [frames EXCEPT ![c]["pnl"] =
           Returned(hdr, trace_id, data, Some(pnl_value),
                    Response(500, ErrorBody("Data inconsistency")))]
    /\ msg' = [msg EXCEPT ![c] = NoMsg]
    /\ UNCHANGED pnls

\* Mutant: the record is not stored before RiskService is called.
compute_pnl_unstored(c, hdr, data, fail) ==
    LET trace_id == header_get(hdr, uuid4(c, "pnl"))
        pnl_value == (data.price[1] - base_costs(data.symbol[1])) * data.quantity[1]
    IN IF ~pnl_fields_ok(data)
       THEN /\ frames' = [frames EXCEPT ![c]["pnl"] =
                   Returned(hdr, trace_id, data, None,
                            Response(400, ErrorBody("Missing required fields")))]
            /\ msg' = [msg EXCEPT ![c] = NoMsg]
            /\ UNCHANGED pnls
       ELSE IF fail
       THEN compute_pnl_failed(c, hdr, trace_id, data, pnl_value)
       ELSE /\ UNCHANGED pnls
            /\ frames' = [frames EXCEPT ![c]["pnl"] =
                   Waiting(hdr, trace_id, data, Some(pnl_value))]
            /\ msg' = [msg EXCEPT ![c] =
                   Message("risk", trace_headers(trace_id),
                           RiskBody(data.trade_id, Some(pnl_value), data.quantity))]

\* POST /pnl, up to the return of a 400 or 500 or to the blocking call to
\* RiskService.  fail: random.random() < 0.05.
compute_pnl(c, hdr, data, fail) ==
    LET trace_id == header_get(hdr, uuid4(c, "pnl")) IN
    IF data = EmptyPnlBody
    THEN /\ frames' = [frames EXCEPT ![c]["pnl"] =
                Returned(hdr, trace_id, data, None, Response(400, ErrorBody("Invalid JSON")))]
         /\ msg' = [msg EXCEPT ![c] = NoMsg]
         /\ UNCHANGED pnls
    ELSE IF ~pnl_fields_ok(data)
    THEN /\ frames' = [frames EXCEPT ![c]["pnl"] =
                Returned(hdr, trace_id, data, None,
                         Response(400, ErrorBody("Missing required fields")))]
         /\ msg' = [msg EXCEPT ![c] = NoMsg]
         /\ UNCHANGED pnls
    ELSE LET trade_id == data.trade_id[1]
             symbol == data.symbol[1]
             price == data.price[1]
             quantity == data.quantity[1]
             cost == base_costs(symbol)
             pnl_value == (price - cost) * quantity
         IN IF fail
            THEN compute_pnl_failed(c, hdr, trace_id, data, pnl_value)
            ELSE /\ pnls' = DictSet(pnls, trade_id,
                                    pnl_record(pnl_value, symbol, price, quantity, cost))
                 /\ frames' = [frames EXCEPT ![c]["pnl"] =
                        Waiting(hdr, trace_id, data, Some(pnl_value))]
                 /\ msg' = [msg EXCEPT ![c] =
                        Message("risk", trace_headers(trace_id),
                                RiskBody(Some(trade_id), Some(pnl_value), Some(quantity)))]

\* POST /pnl, from the end of the call to RiskService to the response.
compute_pnl_return(c) ==
    /\ frames[c]["pnl"].pc = "wait"
    /\ \E outcome \in DownstreamOutcomes(c, "risk") :
         /\ frames' = [frames EXCEPT ![c]["pnl"] =
                [@ EXCEPT !.pc = "done", !.logged = LogLevel(outcome),
                          !.resp = compute_pnl_result(
                                       frames[c]["pnl"].body.trade_id[1],
                                       frames[c]["pnl"].val[1], outcome)]]
         /\ msg' = IF outcome.raised THEN [msg EXCEPT ![c] = NoMsg] ELSE msg
    /\ UNCHANGED <<trades, pnls, risks, entry>>

\* GET /pnl/<trade_id>
get_pnl(trade_id) ==
    LET pnl == DictGet(pnls, trade_id) IN
    IF pnl = None
    THEN Response(404, ErrorBody("P&L not found"))
    ELSE Response(200, pnl[1])

(* ---------------------------------------------------------- RiskService *)

\* Mutant: the MEDIUM rule is tried before the HIGH rule.
assess_risk_reordered(pnl_value, quantity) ==
    IF pnl_value < -100 THEN "MEDIUM"
    ELSE IF pnl_value < 0 /\ quantity > 50 THEN "HIGH"
    ELSE "LOW"

assess_risk(pnl_value, quantity) ==
    IF pnl_value < 0 /\ quantity > 50 THEN "HIGH"
    ELSE IF pnl_value < -100 THEN "MEDIUM"
    ELSE "LOW"

\* all([trade_id, pnl_value is not None, quantity is not None])
risk_fields_ok(data) ==
    /\ TruthyStr(data.trade_id)
    /\ data.pnl_value # None
    /\ data.quantity # None

\* The record POST /risk stores.
risk_record(risk_level, pnl_value, quantity) ==
    [risk_level |-> risk_level, pnl_value |-> pnl_value, quantity |-> quantity]

\* Mutant: the assessment is stored before the simulated failure is drawn.
assess_trade_risk_unavailable_stored(c, hdr, trace_id, data, risk_level) ==
    /\ frames' = [frames EXCEPT ![c]["risk"] =
           Returned(hdr, trace_id, data, Some(risk_level),
                    Response(503, ErrorBody("External data unavailability")))]
    /\ risks' = DictSet(risks, data.trade_id[1],
                        risk_record(risk_level, data.pnl_value[1], data.quantity[1]))

\* POST /risk on the simulated unavailability of external data: answers 503.
assess_trade_risk_unavailable(c, hdr, trace_id, data, risk_level) ==
    /\ frames' = [frames EXCEPT ![c]["risk"] =
           Returned(hdr, trace_id, data, Some(risk_level),
                    Response(503, ErrorBody("External data unavailability")))]
    /\ UNCHANGED risks

\* POST /risk.  unavailable: random.random() < 0.03.
assess_trade_risk(c, hdr, data, unavailable) ==
    LET trace_id == header_get(hdr, uuid4(c, "risk")) IN
    IF data = EmptyRiskBody
    THEN /\ frames' = [frames EXCEPT ![c]["risk"] =
                Returned(hdr, trace_id, data, None, Response(400, ErrorBody("Invalid JSON")))]
         /\ UNCHANGED risks
    ELSE IF ~risk_fields_ok(data)
    THEN /\ frames' = [frames EXCEPT ![c]["risk"] =
                Returned(hdr, trace_id, data, None,
                         Response(400, ErrorBody("Missing required fields")))]
         /\ UNCHANGED risks
    ELSE LET trade_id == data.trade_id[1]
             pnl_value == data.pnl_value[1]
             quantity == data.quantity[1]
             risk_level == assess_risk(pnl_value, quantity)
         IN IF unavailable
            THEN assess_trade_risk_unavailable(c, hdr, trace_id, data, risk_level)
            ELSE /\ risks' = DictSet(risks, trade_id,
                                     risk_record(risk_level, pnl_value, quantity))
                 /\ frames' = [frames EXCEPT ![c]["risk"] =
                        Returned(hdr, trace_id, data, Some(risk_level),
                                 Response(200, [trade_id |-> trade_id,
                                                risk_level |-> risk_level]))]

\* Mutant: a missing assessment is answered with a default one.
get_risk_default(trade_id) ==
    LET risk == DictGet(risks, trade_id) IN
    IF risk = None
    THEN Response(200, risk_record("LOW", 0, 0))
    ELSE Response(200, risk[1])

\* GET /risk/<trade_id>
get_risk(trade_id) ==
    LET risk == DictGet(risks, trade_id) IN
    IF risk = None
    THEN Response(404, ErrorBody("Risk assessment not found"))
    ELSE Response(200, risk[1])

(* ------------------------------------------------------------- requests *)

\* Chains start in order, each once.
CanStart(c) ==
    /\ entry[c] = "none"
    /\ \A d \in Chains : d < c => entry[d] # "none"

\* A client posts to /trades one of `bodies` with one of the headers `hdrs`.
PostTrades(c, hdrs, bodies) ==
    /\ CanStart(c)
    /\ \E hdr \in hdrs, data \in bodies : create_trade(c, hdr, data)
    /\ entry' = [entry EXCEPT ![c] = "trade"]
    /\ UNCHANGED <<pnls, risks, gets>>

\* A client posts to /prices.
PostPrices(c, hdrs, bodies) ==
    /\ CanStart(c)
    /\ \E hdr \in hdrs, data \in bodies, timeout \in BOOLEAN, delta \in Deltas :
         compute_trade_price(c, hdr, data, timeout, delta)
    /\ entry' = [entry EXCEPT ![c] = "pricing"]
    /\ UNCHANGED <<trades, pnls, risks, gets>>

\* A client posts to /pnl.
PostPnl(c, hdrs, bodies) ==
    /\ CanStart(c)
    /\ \E hdr \in hdrs, data \in bodies, fail \in BOOLEAN :
         compute_pnl(c, hdr, data, fail)
    /\ entry' = [entry EXCEPT ![c] = "pnl"]
    /\ UNCHANGED <<trades, risks, gets>>

\* A client posts to /risk.
PostRisk(c, hdrs, bodies) ==
    /\ CanStart(c)
    /\ \E hdr \in hdrs, data \in bodies, unavailable \in BOOLEAN :
         assess_trade_risk(c, hdr, data, unavailable)
    /\ entry' = [entry EXCEPT ![c] = "risk"]
    /\ UNCHANGED <<trades, pnls, msg, gets>>

\* PricingService receives the request TradeService posted.
DeliverPrices(c) ==
    /\ msg[c].to = "pricing"
    /\ \E timeout \in BOOLEAN, delta \in Deltas :
         compute_trade_price(c, msg[c].hdr, msg[c].body, timeout, delta)
    /\ UNCHANGED <<trades, pnls, risks, entry, gets>>

\* PnLService receives the request PricingService posted.
DeliverPnl(c) ==
    /\ msg[c].to = "pnl"
    /\ \E fail \in BOOLEAN : compute_pnl(c, msg[c].hdr, msg[c].body, fail)
    /\ UNCHANGED <<trades, risks, entry, gets>>

\* RiskService receives the request PnLService posted.
DeliverRisk(c) ==
    /\ msg[c].to = "risk"
    /\ \E unavailable \in BOOLEAN :
         assess_trade_risk(c, msg[c].hdr, msg[c].body, unavailable)
    /\ msg' = [msg EXCEPT ![c] = NoMsg]
    /\ UNCHANGED <<trades, pnls, entry, gets>>

\* A blocked handler resumes and responds.
ReturnTrade(c) == create_trade_return(c) /\ UNCHANGED gets
ReturnPrices(c) == compute_trade_price_return(c) /\ UNCHANGED gets
ReturnPnl(c) == compute_pnl_return(c) /\ UNCHANGED gets

\* A client reads a record.
Served(service, id, resp) == [service |-> service, id |-> id, resp |-> resp]

ClientGet(c, service, id, resp) ==
    /\ CanStart(c)
    /\ entry' = [entry EXCEPT ![c] = "get"]
    /\ gets' = [gets EXCEPT ![c] = Served(service, id, resp)]
    /\ UNCHANGED <<trades, pnls, risks, frames, msg>>

ClientGetTrade(c) == \E id \in TradeIds : ClientGet(c, "trade", id, get_trade(id))
ClientGetPrice(c) == \E id \in TradeIds : ClientGet(c, "pricing", id, get_price(id))
ClientGetPnl(c) == \E id \in TradeIds : ClientGet(c, "pnl", id, get_pnl(id))
ClientGetRisk(c) == \E id \in TradeIds : ClientGet(c, "risk", id, get_risk(id))

Init ==
    /\ trades = EmptyDict
    /\ pnls = EmptyDict
    /\ risks = EmptyDict
    /\ entry = [c \in Chains |-> "none"]
    /\ frames = [c \in Chains |-> [s \in Services |-> IdleFrame(s)]]
    /\ msg = [c \in Chains |-> NoMsg]
    /\ gets = [c \in Chains |-> NoGet]

(* The pipeline: clients post trades, and post to /prices and /pnl directly;   *)
(* they send no X-Trace-Id header.                                             *)

ClientPostTrades(c) == PostTrades(c, {None}, TradeBodies)
ClientPostPrices(c) == PostPrices(c, {None}, PriceBodies)
ClientPostPnl(c) == PostPnl(c, {None}, PnlBodies)

\* The steps of the handlers a client's post sets off downstream.
Downstream ==
    \/ \E c \in Chains : DeliverPrices(c)
    \/ \E c \in Chains : DeliverPnl(c)
    \/ \E c \in Chains : DeliverRisk(c)
    \/ \E c \in Chains : ReturnTrade(c)
    \/ \E c \in Chains : ReturnPrices(c)
    \/ \E c \in Chains : ReturnPnl(c)

Next ==
    \/ \E c \in Chains : ClientPostTrades(c)
    \/ \E c \in Chains : ClientPostPrices(c)
    \/ \E c \in Chains : ClientPostPnl(c)
    \/ Downstream
    \/ \E c \in Chains : ClientGetTrade(c)
    \/ \E c \in Chains : ClientGetPrice(c)
    \/ \E c \in Chains : ClientGetPnl(c)
    \/ \E c \in Chains : ClientGetRisk(c)

Spec == Init /\ [][Next]_vars

(* Trace propagation: the clients post the base trade, and post to /pnl         *)
(* directly, with or without an X-Trace-Id header.                              *)

TracedPostTrades(c) == PostTrades(c, Headers, {BaseTradeBody})
TracedPostPnl(c) == PostPnl(c, Headers, PnlBodies)

NextTraced ==
    \/ \E c \in Chains : TracedPostTrades(c)
    \/ \E c \in Chains : TracedPostPnl(c)
    \/ Downstream

SpecTraced == Init /\ [][NextTraced]_vars

(* TradeService alone, on every body: PricingService is unreachable, so each   *)
(* call to it ends in a transport error.                                       *)

AnyPostTrades(c) == PostTrades(c, {None}, AnyTradeBodies)

NextTrade ==
    \/ \E c \in Chains : AnyPostTrades(c)
    \/ \E c \in Chains : ReturnTrade(c)
    \/ \E c \in Chains : ClientGetTrade(c)

SpecTrade == Init /\ [][NextTrade]_vars

(* RiskService alone, on every body.                                           *)

AnyPostRisk(c) == PostRisk(c, {None}, AnyRiskBodies)

NextRisk ==
    \/ \E c \in Chains : AnyPostRisk(c)
    \/ \E c \in Chains : ClientGetRisk(c)

SpecRisk == Init /\ [][NextRisk]_vars

(* PnLService alone, on every body, with the RiskService it calls.             *)

AnyPostPnl(c) == PostPnl(c, {None}, AnyPnlBodies)

NextPnl ==
    \/ \E c \in Chains : AnyPostPnl(c)
    \/ \E c \in Chains : DeliverRisk(c)
    \/ \E c \in Chains : ReturnPnl(c)
    \/ \E c \in Chains : ClientGetPnl(c)

SpecPnl == Init /\ [][NextPnl]_vars

\* The steps of the handlers of chain c.
Handle(c) ==
    \/ DeliverPrices(c)
    \/ DeliverPnl(c)
    \/ DeliverRisk(c)
    \/ ReturnTrade(c)
    \/ ReturnPrices(c)
    \/ ReturnPnl(c)

(* Requests enter through POST /trades only, with the base trade or with its   *)
(* quantity 0; every call that was issued is eventually answered or raises,    *)
(* and every handler that can go on eventually does.                           *)

LivePostTrades(c) ==
    PostTrades(c, {None}, {BaseTradeBody, [BaseTradeBody EXCEPT !.quantity = Some(0)]})

NextLive ==
    \/ \E c \in Chains : LivePostTrades(c)
    \/ \E c \in Chains : Handle(c)

SpecLive == Init /\ [][NextLive]_vars /\ \A c \in Chains : WF_vars(Handle(c))

(* Requests enter through POST /trades only: valid trades for each trade_id,   *)
(* repeated or not, and a trade with quantity 0.                               *)

ChainPostTrades(c) ==
    PostTrades(c, {None}, TradeBodies \cup {[BaseTradeBody EXCEPT !.quantity = Some(0)]})

NextChain ==
    \/ \E c \in Chains : ChainPostTrades(c)
    \/ \E c \in Chains : Handle(c)

SpecChain == Init /\ [][NextChain]_vars

(* Requests enter through POST /trades only, and no trade_id is submitted      *)
(* twice.                                                                      *)

\* One trade per trade_id, of differing symbols and quantities.
OnceTradeBodies ==
    {TradeBody(Some("t1"), Some("AAPL"), Some(60), Some(150), Some("buy")),
     TradeBody(Some("t2"), Some("XXX"), Some(-10), Some(150), Some("sell")),
     TradeBody(Some("t3"), Some("AAPL"), Some(-10), Some(155), Some("buy"))}

\* Some POST /trades has carried the trade_id of `data`.
Submitted(data) ==
    \E d \in Chains :
        entry[d] = "trade" /\ frames[d]["trade"].body.trade_id = data.trade_id

OncePostTrades(c) ==
    PostTrades(c, {None}, {data \in OnceTradeBodies : ~Submitted(data)})

NextOnce ==
    \/ \E c \in Chains : OncePostTrades(c)
    \/ \E c \in Chains : Handle(c)

SpecOnce == Init /\ [][NextOnce]_vars

(* =============================================================== claims *)

Callers == {"trade", "pricing", "pnl"}

\* The services after s in the chain.
Later(s) ==
    CASE s = "trade" -> {"pricing", "pnl", "risk"}
      [] s = "pricing" -> {"pnl", "risk"}
      [] s = "pnl" -> {"risk"}
      [] s = "risk" -> {}

\* The handler of s in chain c has returned after a downstream call.
CalledAndReturned(c, s) == frames[c][s].pc = "done" /\ frames[c][s].logged # "none"

\* The success response the interface table gives for the request of the frame.
SuccessResponse(s, f) ==
    CASE s = "trade" ->
           Response(201, [message |-> "Trade created", trade_id |-> f.body.trade_id[1]])
      [] s = "pricing" ->
           Response(200, [trade_id |-> f.body.trade_id[1], computed_price |-> f.val[1]])
      [] s = "pnl" ->
           Response(200, [trade_id |-> f.body.trade_id[1], pnl_value |-> f.val[1]])

\* C1: whatever the outcome of its downstream call (200, non-200, transport
\* error), a service with a downstream hop answers an accepted request with its
\* success status and body: 201 {message, trade_id}, 200 {trade_id,
\* computed_price}, 200 {trade_id, pnl_value}.
C1_DownstreamOutcomeNotSurfaced ==
    \A c \in Chains : \A s \in Callers :
        CalledAndReturned(c, s) =>
            /\ frames[c][s].logged \in {"info", "warning", "error"}
            /\ frames[c][s].resp = SuccessResponse(s, frames[c][s])

\* Two POST /trades for the same trade_id have returned, one after a transport
\* error and one after a 200 of PricingService; a POST /prices and a POST /pnl
\* have returned after a failed downstream call.
C1_Witness ==
    /\ \E c, d \in Chains :
          /\ CalledAndReturned(c, "trade") /\ frames[c]["trade"].logged = "error"
          /\ CalledAndReturned(d, "trade") /\ frames[d]["trade"].logged = "info"
          /\ frames[c]["trade"].body.trade_id = frames[d]["trade"].body.trade_id
          /\ frames[c]["trade"].resp = frames[d]["trade"].resp
    /\ \E c \in Chains :
          CalledAndReturned(c, "pricing") /\ frames[c]["pricing"].logged = "warning"

\* The trace id of chain c: the trace id of the handler the client posted to.
ChainTrace(c) == frames[c][entry[c]].trace

\* C2: every request received downstream in a chain carries X-Trace-Id equal to
\* the trace id of the chain's entry point, which is the client's header when
\* the client sent one and the id generated at the entry point otherwise.
C2_TraceIdForwarded ==
    \A c \in Chains :
        entry[c] \in Services =>
            /\ frames[c][entry[c]].hdr # None =>
                   ChainTrace(c) = frames[c][entry[c]].hdr[1]
            /\ frames[c][entry[c]].hdr = None =>
                   ChainTrace(c) = uuid4(c, entry[c])
            /\ \A s \in Later(entry[c]) :
                   frames[c][s].pc # "idle" =>
                       /\ frames[c][s].hdr = Some(ChainTrace(c))
                       /\ frames[c][s].trace = ChainTrace(c)
            /\ msg[c].to # "none" => msg[c].hdr = Some(ChainTrace(c))

\* A POST /trades without the header and one with it have both reached
\* RiskService.
C2_Witness ==
    \E c, d \in Chains :
        /\ entry[c] = "trade" /\ frames[c]["trade"].hdr = None
        /\ frames[c]["risk"].pc = "done"
        /\ entry[d] = "trade" /\ frames[d]["trade"].hdr # None
        /\ frames[d]["risk"].pc = "done"

\* The step in which POST /pnl of chain c answers 500.
PnlFails(c) ==
    /\ frames[c]["pnl"].pc = "idle"
    /\ frames'[c]["pnl"].resp.status = 500

\* C3: POST /pnl on the DataInconsistency path answers 500, leaves the P&L
\* store as it was and posts nothing to RiskService.
C3_PnlFailureStoresNothing ==
    /\ [][\A c \in Chains : PnlFails(c) =>
            /\ pnls' = pnls
            /\ frames'[c]["pnl"].pc = "done"
            /\ msg'[c] = NoMsg]_vars
    /\ [](\A c \in Chains : frames[c]["pnl"].resp.status = 500 =>
            /\ frames[c]["pnl"].logged = "none"
            /\ frames[c]["risk"].pc = "idle"
            /\ msg[c].to # "risk")

\* A POST /pnl has answered 500 for a trade_id that has an earlier record, and
\* the record is not the one this request computed.
C3_Witness ==
    \E c \in Chains :
        /\ frames[c]["pnl"].resp.status = 500
        /\ frames[c]["pnl"].body.trade_id[1] \in DOMAIN pnls
        /\ pnls[frames[c]["pnl"].body.trade_id[1]].pnl_value # frames[c]["pnl"].val[1]

\* The step in which POST /risk of chain c answers 503.
RiskUnavailable(c) ==
    /\ frames[c]["risk"].pc = "idle"
    /\ frames'[c]["risk"].resp.status = 503

\* C4: POST /risk on the ExternalDataUnavailable path answers 503 after the
\* classification and leaves the risk store as it was: GET /risk/{trade_id}
\* answers afterwards what it answered before (the previous record, or 404).
C4_RiskUnavailableStoresNothing ==
    [][\A c \in Chains : RiskUnavailable(c) =>
          /\ risks' = risks
          /\ frames'[c]["risk"].val # None
          /\ \A id \in TradeIds : get_risk(id)' = get_risk(id)]_vars

\* A POST /risk has answered 503 for a trade_id with a previous record of another
\* level, and another one for a trade_id without a record.
C4_Witness ==
    /\ \E c \in Chains :
          /\ frames[c]["risk"].resp.status = 503
          /\ get_risk(frames[c]["risk"].body.trade_id[1]).status = 200
          /\ get_risk(frames[c]["risk"].body.trade_id[1]).body.risk_level
                 # frames[c]["risk"].val[1]

\* C5: POST /prices on the timeout path answers 504 for a request that passed
\* validation, computes no price, and posts nothing to PnLService: neither
\* PnLService nor RiskService ever handles a request of that chain.
C5_TimeoutShortCircuits ==
    \A c \in Chains :
        frames[c]["pricing"].resp.status = 504 =>
            /\ ~price_fields_missing(frames[c]["pricing"].body)
            /\ frames[c]["pricing"].val = None
            /\ frames[c]["pricing"].logged = "none"
            /\ frames[c]["pnl"].pc = "idle"
            /\ frames[c]["risk"].pc = "idle"
            /\ msg[c].to \notin {"pnl", "risk"}

\* A POST /trades has returned 201 after PricingService answered 504.
C5_Witness ==
    \E c \in Chains :
        /\ frames[c]["pricing"].resp.status = 504
        /\ frames[c]["trade"].pc = "done"
        /\ frames[c]["trade"].resp.status = 201

\* The handler of s in chain c passed validation and fault injection: it wrote
\* its store (if it has one) and went on to its downstream call or response.
Succeeded(c, s) ==
    IF s = "risk" THEN frames[c][s].resp.status = 200
    ELSE frames[c][s].pc = "wait" \/ frames[c][s].logged # "none"

\* The step in which the handler of s in chain c runs and succeeds.
Succeeds(c, s) ==
    /\ frames[c][s].pc = "idle"
    /\ IF s = "risk" THEN frames'[c][s].resp.status = 200
       ELSE frames'[c][s].pc = "wait"

\* The step in which a hop after TradeService fails in chain c, or in which a
\* caller of chain c observes that its downstream call failed.
LaterHopFails(c) ==
    \/ \E s \in Later("trade") :
          frames[c][s].pc = "idle" /\ frames'[c][s].resp.status \in {400, 500, 503, 504}
    \/ \E s \in Callers :
          frames[c][s].pc = "wait" /\ frames'[c][s].logged \in {"warning", "error"}

\* The step in which RiskService fails in chain c, or in which PnLService
\* observes that its call to RiskService failed.
RiskCallFails(c) ==
    \/ frames[c]["risk"].pc = "idle" /\ frames'[c]["risk"].resp.status \in {400, 503}
    \/ frames[c]["pnl"].pc = "wait" /\ frames'[c]["pnl"].logged \in {"warning", "error"}

\* C6: no failure of a later hop removes or alters a stored trade, and a failed
\* call to RiskService leaves the stored P&L records as they are; the trade store
\* changes only in a step in which POST /trades stores a trade, and the P&L store
\* only in a step in which POST /pnl stores a record.
C6_NoRollback ==
    [][/\ \A c \in Chains : LaterHopFails(c) => trades' = trades
       /\ \A c \in Chains : RiskCallFails(c) => pnls' = pnls
       /\ trades' # trades => \E c \in Chains : Succeeds(c, "trade")
       /\ pnls' # pnls => \E c \in Chains : Succeeds(c, "pnl")]_vars

\* A POST /trades has returned after a failed call to PricingService and its
\* trade is stored; a POST /pnl has returned after a failed call to RiskService
\* and its record is stored.
C6_Witness ==
    /\ \E c \in Chains :
          /\ CalledAndReturned(c, "trade")
          /\ frames[c]["trade"].logged \in {"warning", "error"}
          /\ frames[c]["trade"].body.trade_id[1] \in DOMAIN trades
    /\ \E c \in Chains :
          /\ CalledAndReturned(c, "pnl")
          /\ frames[c]["pnl"].logged \in {"warning", "error"}
          /\ frames[c]["pnl"].body.trade_id[1] \in DOMAIN pnls

\* The step in which POST /trades of chain c handles a body with every field
\* truthy.
ValidTradePosted(c) ==
    /\ frames[c]["trade"].pc = "idle"
    /\ frames'[c]["trade"].pc # "idle"
    /\ trade_fields_ok(frames'[c]["trade"].body)

\* C7: once POST /trades has handled a valid body, GET /trades/{trade_id} answers
\* 200 with the submitted symbol, quantity, price and trade_type and the
\* timestamp the server took for the request.
C7_GetReturnsSubmittedTrade ==
    [][\A c \in Chains : \A id \in TradeIds :
          LET data == frames'[c]["trade"].body IN
          (ValidTradePosted(c) /\ data.trade_id = Some(id)) =>
          get_trade(id)' =
              Response(200, [trade_id |-> id, symbol |-> data.symbol[1],
                             quantity |-> data.quantity[1], price |-> data.price[1],
                             trade_type |-> data.trade_type[1],
                             timestamp |-> now(c)])]_vars

\* A GET /trades/{trade_id} has answered 200 with the quantity and the price a
\* POST /trades submitted before it.
C7_Witness ==
    \E c, d \in Chains :
        /\ c < d
        /\ Succeeded(c, "trade")
        /\ gets[d].service = "trade"
        /\ gets[d].id = frames[c]["trade"].body.trade_id[1]
        /\ gets[d].resp.status = 200
        /\ gets[d].resp.body.quantity = frames[c]["trade"].body.quantity[1]
        /\ gets[d].resp.body.price = frames[c]["trade"].body.price[1]
        /\ gets[d].resp.body.timestamp = now(c)

\* C8: a successful POST /pnl (resp. /risk) makes GET /pnl/{trade_id} (resp.
\* /risk) answer exactly the record of that request, leaves the answer for every
\* other trade_id as it was, and no other step changes any answer: a GET returns
\* the record of the most recent successful POST for its trade_id.
C8_LastWriteWins ==
    [][/\ \A c \in Chains : \A t \in TradeIds :
            LET data == frames'[c]["pnl"].body IN
            (Succeeds(c, "pnl") /\ data.trade_id = Some(t)) =>
            /\ get_pnl(t)' =
                   Response(200, [pnl_value |-> frames'[c]["pnl"].val[1],
                                  symbol |-> data.symbol[1], price |-> data.price[1],
                                  quantity |-> data.quantity[1],
                                  cost |-> base_costs(data.symbol[1])])
            /\ \A id \in TradeIds \ {t} : get_pnl(id)' = get_pnl(id)
       /\ \A c \in Chains : \A t \in TradeIds :
            LET data == frames'[c]["risk"].body IN
            (Succeeds(c, "risk") /\ data.trade_id = Some(t)) =>
            /\ get_risk(t)' =
                   Response(200, [risk_level |-> frames'[c]["risk"].val[1],
                                  pnl_value |-> data.pnl_value[1],
                                  quantity |-> data.quantity[1]])
            /\ \A id \in TradeIds \ {t} : get_risk(id)' = get_risk(id)
       /\ \A id \in TradeIds :
            get_pnl(id)' # get_pnl(id) =>
                \E c \in Chains :
                    Succeeds(c, "pnl") /\ frames'[c]["pnl"].body.trade_id[1] = id
       /\ \A id \in TradeIds :
            get_risk(id)' # get_risk(id) =>
                \E c \in Chains :
                    Succeeds(c, "risk") /\ frames'[c]["risk"].body.trade_id[1] = id]_vars

\* Two POSTs to /pnl with different values succeeded for one trade_id, and so
\* did the two POSTs to /risk they triggered, with different levels.
C8_Witness ==
    \E c, d \in Chains :
        /\ c # d /\ Succeeded(c, "pnl") /\ Succeeded(d, "pnl")
        /\ frames[c]["pnl"].body.trade_id = frames[d]["pnl"].body.trade_id
        /\ frames[c]["pnl"].val # frames[d]["pnl"].val
        /\ Succeeded(c, "risk") /\ Succeeded(d, "risk")
        /\ frames[c]["risk"].val # frames[d]["risk"].val

\* Some successful POST of chain c wrote the store of service s under id.
Written(s, id) ==
    \E c \in Chains : Succeeded(c, s) /\ frames[c][s].body.trade_id = Some(id)

\* C9: a GET for a trade_id that no successful POST has written answers 404, at
\* each of the four services (PricingService stores nothing and has no GET
\* route).
C9_GetUnwrittenIsNotFound ==
    \A id \in TradeIds :
        /\ ~Written("trade", id) => get_trade(id).status = 404
        /\ get_price(id).status = 404
        /\ ~Written("pnl", id) => get_pnl(id).status = 404
        /\ ~Written("risk", id) => get_risk(id).status = 404
        /\ \A c \in Chains :
               /\ gets[c].id = id
               /\ gets[c].service \in {"trade", "pnl", "risk"}
               /\ ~Written(gets[c].service, id)
               => gets[c].resp.status = 404

\* A GET /risk for a trade_id never written was served while the risk store has
\* a record for the other trade_id.
C9_Witness ==
    \E c \in Chains :
        /\ gets[c].service = "risk"
        /\ gets[c].resp.status = 404
        /\ risks # EmptyDict
        /\ ~Written("risk", gets[c].id)

\* The level the classification rules give.
IsHigh(pnl_value, quantity) == pnl_value < 0 /\ quantity > 50
IsMedium(pnl_value, quantity) == ~IsHigh(pnl_value, quantity) /\ pnl_value < -100

\* C10: for every pnl_value and quantity RiskService accepts, exactly one level
\* is computed: HIGH when pnl_value < 0 and quantity > 50, otherwise MEDIUM when
\* pnl_value < -100, otherwise LOW; a successful POST /risk returns and stores
\* that level.
C10_ClassificationTotalOrdered ==
    \A c \in Chains :
        (frames[c]["risk"].pc = "done" /\ risk_fields_ok(frames[c]["risk"].body)) =>
            LET pnl_value == frames[c]["risk"].body.pnl_value[1]
                quantity == frames[c]["risk"].body.quantity[1]
                level == frames[c]["risk"].val
            IN /\ level # None
               /\ level[1] \in {"HIGH", "MEDIUM", "LOW"}
               /\ level[1] = "HIGH" <=> IsHigh(pnl_value, quantity)
               /\ level[1] = "MEDIUM" <=> IsMedium(pnl_value, quantity)
               /\ level[1] = "LOW" <=>
                      ~IsHigh(pnl_value, quantity) /\ ~IsMedium(pnl_value, quantity)
               /\ frames[c]["risk"].resp.status = 200 =>
                      frames[c]["risk"].resp.body.risk_level = level[1]

\* POST /risk has classified (pnl_value = -150, quantity = 60), which meets the
\* first and the second rule, as HIGH, and (-150, 10) as MEDIUM.
C10_Witness ==
    \E c, d \in Chains :
        /\ frames[c]["risk"].resp.status = 200
        /\ frames[c]["risk"].body.pnl_value = Some(-150)
        /\ frames[c]["risk"].body.quantity = Some(60)
        /\ frames[c]["risk"].val = Some("HIGH")
        /\ frames[d]["risk"].resp.status = 200
        /\ frames[d]["risk"].body.pnl_value = Some(-150)
        /\ frames[d]["risk"].body.quantity = Some(10)
        /\ frames[d]["risk"].val = Some("MEDIUM")

\* The cost basis the interface gives for a symbol.
cost_lookup(symbol) ==
    IF symbol = "AAPL" THEN 140
    ELSE IF symbol = "GOOGL" THEN 2700
    ELSE IF symbol = "MSFT" THEN 280
    ELSE 90

\* C11: a POST /pnl that takes the non-failure path stores, under its trade_id, a
\* record whose pnl_value is (price - cost_lookup(symbol)) * quantity and whose
\* cost is cost_lookup(symbol), and it returns that pnl_value.
C11_PnlFormula ==
    /\ [][\A c \in Chains :
            LET data == frames'[c]["pnl"].body IN
            Succeeds(c, "pnl") =>
                \A t \in TradeIds : data.trade_id = Some(t) =>
                    /\ pnls'[t].cost = cost_lookup(data.symbol[1])
                    /\ pnls'[t].pnl_value =
                           (data.price[1] - cost_lookup(data.symbol[1])) * data.quantity[1]]_vars
    /\ [](\A c \in Chains :
            LET f == frames[c]["pnl"] IN
            Succeeded(c, "pnl") =>
                /\ f.val = Some((f.body.price[1] - cost_lookup(f.body.symbol[1]))
                                * f.body.quantity[1])
                /\ f.pc = "done" =>
                       /\ f.resp.status = 200
                       /\ f.resp.body.pnl_value = f.val[1])

\* POST /pnl has returned 100 for (AAPL, 150, 10) and stored it with cost 140,
\* after another POST /pnl returned a value for a symbol outside the table.
C11_Witness ==
    \E c, d \in Chains :
        /\ c < d
        /\ frames[c]["pnl"].pc = "done" /\ frames[c]["pnl"].resp.status = 200
        /\ frames[c]["pnl"].body.symbol = Some("XXX")
        /\ frames[c]["pnl"].resp.body.pnl_value = 60 * frames[c]["pnl"].body.quantity[1]
        /\ frames[d]["pnl"].pc = "done" /\ frames[d]["pnl"].resp.status = 200
        /\ frames[d]["pnl"].body = BasePnlBody
        /\ frames[d]["pnl"].resp.body.pnl_value = 100
        /\ pnls["t1"].pnl_value = 100 /\ pnls["t1"].cost = 140

\* Some field of the body of a POST /trades is missing, null, "" or 0.
TradeFieldMissingOrFalsy(data) ==
    \/ data.trade_id \in BadStr
    \/ data.symbol \in BadStr
    \/ data.quantity \in BadNum
    \/ data.price \in BadNum
    \/ data.trade_type \in BadStr

\* The step in which POST /trades of chain c handles a body with a field missing
\* or falsy.
InvalidTradePosted(c) ==
    /\ frames[c]["trade"].pc = "idle"
    /\ frames'[c]["trade"].pc # "idle"
    /\ TradeFieldMissingOrFalsy(frames'[c]["trade"].body)

\* C12: a POST /trades whose body has any of trade_id, symbol, quantity, price,
\* trade_type missing or falsy answers 400, leaves the trade store as it was and
\* posts nothing to PricingService, then or later.
C12_InvalidTradeRejected ==
    /\ [][\A c \in Chains : InvalidTradePosted(c) =>
            /\ frames'[c]["trade"].pc = "done"
            /\ frames'[c]["trade"].resp.status = 400
            /\ trades' = trades
            /\ msg'[c] = NoMsg]_vars
    /\ [](\A c \in Chains :
            (entry[c] = "trade" /\ TradeFieldMissingOrFalsy(frames[c]["trade"].body)) =>
                /\ frames[c]["trade"].resp.status = 400
                /\ frames[c]["trade"].logged = "none"
                /\ frames[c]["pricing"].pc = "idle"
                /\ msg[c] = NoMsg)

\* A POST /trades with quantity 0 has answered 400 for a trade_id an earlier POST
\* /trades stored, and the stored trade is still the earlier one.
C12_Witness ==
    \E c, d \in Chains :
        /\ d < c
        /\ Succeeded(d, "trade")
        /\ frames[c]["trade"].resp.status = 400
        /\ frames[c]["trade"].body.quantity = Some(0)
        /\ frames[c]["trade"].body.trade_id = frames[d]["trade"].body.trade_id
        /\ trades[frames[c]["trade"].body.trade_id[1]].quantity
               = frames[d]["trade"].body.quantity[1]
        /\ trades[frames[c]["trade"].body.trade_id[1]].timestamp = now(d)

\* C13: every Trade held in the trade store has quantity > 0.
C13_StoredQuantityPositive ==
    \A t \in DOMAIN trades : trades[t].quantity > 0

\* C15, as claimed: once a trade is in the trade store, its key is never removed
\* and its symbol, quantity, price, trade_type and timestamp never change.
C15_TradeImmutable ==
    [][\A t \in DOMAIN trades :
          /\ t \in DOMAIN trades'
          /\ trades'[t] = trades[t]]_vars

\* C15, amended: once a trade is in the trade store, its key is never removed,
\* and the stored trade changes only in a step in which POST /trades handles a
\* valid body with the same trade_id, which replaces it by the trade of that
\* request (the submitted fields and a new timestamp).
C15_TradeReplacedOnlyByRepost ==
    [][\A t \in DOMAIN trades :
          /\ t \in DOMAIN trades'
          /\ trades'[t] # trades[t] =>
                 \E c \in Chains :
                     LET data == frames'[c]["trade"].body IN
                     /\ ValidTradePosted(c)
                     /\ data.trade_id = Some(t)
                     /\ trades'[t] = [trade_id |-> t, symbol |-> data.symbol[1],
                                      quantity |-> data.quantity[1],
                                      price |-> data.price[1],
                                      trade_type |-> data.trade_type[1],
                                      timestamp |-> now(c)]]_vars

\* Two POST /trades for one trade_id with different quantities have returned 201:
\* the trade_id is still a key and the store holds the trade of the second.
C15_Witness ==
    \E c, d \in Chains :
        /\ c < d
        /\ frames[c]["trade"].resp.status = 201
        /\ frames[d]["trade"].resp.status = 201
        /\ frames[c]["trade"].body.trade_id = frames[d]["trade"].body.trade_id
        /\ frames[c]["trade"].body.quantity # frames[d]["trade"].body.quantity
        /\ trades[frames[c]["trade"].body.trade_id[1]].quantity
               = frames[d]["trade"].body.quantity[1]
        /\ trades[frames[c]["trade"].body.trade_id[1]].timestamp = now(d)

\* The service s calls, in the order Trade -> Pricing -> P&L -> Risk.
NextHop(s) ==
    CASE s = "trade" -> "pricing"
      [] s = "pricing" -> "pnl"
      [] s = "pnl" -> "risk"

\* The step in which some handler of chain c issues a downstream call.
Calls(c) == msg'[c] # msg[c] /\ msg'[c].to # "none"

\* C16: a downstream call is issued only by a handler that starts handling a
\* request, and goes to the next service in the order Trade -> Pricing -> P&L ->
\* Risk; a handler that resumes from its call responds without issuing another
\* one, whatever the outcome; a handler that has responded does nothing more;
\* RiskService never calls.
C16_NoRetryLinearFlow ==
    /\ [][\A c \in Chains :
            /\ Calls(c) =>
                   \E s \in Callers :
                       /\ frames[c][s].pc = "idle"
                       /\ frames'[c][s].pc = "wait"
                       /\ msg'[c].to = NextHop(s)
                       /\ \A r \in Services \ {s} : frames'[c][r] = frames[c][r]
            /\ \A s \in Services :
                   /\ frames[c][s].pc = "wait" =>
                          /\ frames'[c][s].pc \in {"wait", "done"}
                          /\ frames'[c][s].pc = "done" => ~Calls(c)
                   /\ frames[c][s].pc = "done" => frames'[c][s] = frames[c][s]]_vars
    /\ [](\A c \in Chains :
            /\ frames[c]["risk"].pc # "wait"
            /\ frames[c]["risk"].logged = "none"
            /\ msg[c].to # "trade")

\* One POST /trades has returned after all four services answered, and another
\* has returned after PricingService answered 504, with no call in flight and
\* PnLService never invoked.
C16_Witness ==
    \E c, d \in Chains :
        /\ entry[c] = "trade"
        /\ \A s \in Services : frames[c][s].pc = "done"
        /\ frames[c]["risk"].resp.status = 200
        /\ entry[d] = "trade"
        /\ frames[d]["trade"].pc = "done" /\ frames[d]["trade"].logged = "warning"
        /\ frames[d]["pricing"].resp.status = 504
        /\ frames[d]["pnl"].pc = "idle"
        /\ msg[d] = NoMsg

\* No hop of the chain of the POST /trades of chain c took a failure path: every
\* call was answered 200.
AllHopsOk(c) ==
    /\ entry[c] = "trade"
    /\ frames[c]["trade"].logged = "info"
    /\ frames[c]["pricing"].logged = "info"
    /\ frames[c]["pnl"].logged = "info"
    /\ frames[c]["risk"].resp.status = 200

\* C17: a handler with a downstream hop has responded only after its call
\* raised a transport error or the next service responded, and it logged the
\* status the next service gave; and once a POST /trades has returned 201 with
\* every hop of its chain answered 200, the P&L store and the risk store hold a
\* record for its trade_id.
C17_RespondsAfterDownstream ==
    \A c \in Chains :
        /\ \A s \in Callers :
               CalledAndReturned(c, s) =>
                   \/ frames[c][s].logged = "error"
                   \/ /\ frames[c][NextHop(s)].pc = "done"
                      /\ frames[c][s].logged =
                             LogLevel(Answered(frames[c][NextHop(s)].resp.status))
        /\ (AllHopsOk(c) /\ frames[c]["trade"].resp.status = 201) =>
               /\ frames[c]["trade"].body.trade_id[1] \in DOMAIN pnls
               /\ frames[c]["trade"].body.trade_id[1] \in DOMAIN risks

\* A POST /trades has returned 201 with every hop answered 200, and the stores
\* hold the P&L value and the risk level its chain computed.
C17_Witness ==
    \E c \in Chains :
        /\ AllHopsOk(c)
        /\ frames[c]["trade"].resp.status = 201
        /\ pnls[frames[c]["trade"].body.trade_id[1]].pnl_value = frames[c]["pnl"].val[1]
        /\ risks[frames[c]["trade"].body.trade_id[1]].risk_level = frames[c]["risk"].val[1]

\* The POST /trades of chain c has received its response.
Responded(c) ==
    /\ frames[c]["trade"].pc = "done"
    /\ frames[c]["trade"].resp.status \in {400, 201}

\* C18: if every call that was issued is eventually answered or raises, every
\* POST /trades eventually receives a 400 or a 201; and while it has not, some
\* handler of its own chain can take a step, whatever the other requests do: a
\* request waits on nothing but its own downstream calls.
C18_ChainTerminates ==
    /\ \A c \in Chains : (entry[c] = "trade") ~> Responded(c)
    /\ [](\A c \in Chains :
            (entry[c] = "trade" /\ ~Responded(c)) => ENABLED <<Handle(c)>>_vars)

\* Every POST /trades has received its response, a 201 among them that ended a
\* chain of three calls, while a request with quantity 0 got a 400.
C18_Witness ==
    /\ \A c \in Chains : Responded(c)
    /\ \E c \in Chains :
          /\ frames[c]["trade"].resp.status = 201
          /\ \A s \in Services : frames[c][s].pc = "done"
    /\ \E c \in Chains : frames[c]["trade"].resp.status = 400

\* C19: when requests enter through POST /trades only, a risk record for a
\* trade_id implies a P&L record for it, and a P&L record for a trade_id implies
\* a trade for it.
C19_RiskImpliesPnlImpliesTrade ==
    /\ DOMAIN risks \subseteq DOMAIN pnls
    /\ DOMAIN pnls \subseteq DOMAIN trades

\* One trade_id has a risk record, a P&L record and a trade; the other has a
\* trade and a P&L record but no risk record.
C19_Witness ==
    \E t, u \in TradeIds :
        /\ t \in DOMAIN risks /\ t \in DOMAIN pnls /\ t \in DOMAIN trades
        /\ u \in DOMAIN trades /\ u \in DOMAIN pnls /\ u \notin DOMAIN risks

\* The level the classification rules give to a P&L value and a quantity.
Classification(pnl_value, quantity) ==
    IF IsHigh(pnl_value, quantity) THEN "HIGH"
    ELSE IF IsMedium(pnl_value, quantity) THEN "MEDIUM"
    ELSE "LOW"

\* C20: when requests enter through POST /trades only and no trade_id is
\* submitted twice, the risk record of a trade_id has the pnl_value and the
\* quantity of the P&L record of that trade_id and the level the classification
\* gives them, and the P&L record has the symbol and the quantity of the trade.
C20_CrossStoreConsistency ==
    /\ \A t \in DOMAIN risks :
           /\ t \in DOMAIN pnls
           /\ risks[t].pnl_value = pnls[t].pnl_value
           /\ risks[t].quantity = pnls[t].quantity
           /\ risks[t].risk_level = Classification(pnls[t].pnl_value, pnls[t].quantity)
    /\ \A t \in DOMAIN pnls :
           /\ t \in DOMAIN trades
           /\ pnls[t].symbol = trades[t].symbol
           /\ pnls[t].quantity = trades[t].quantity

\* Two trades of different symbols and quantities have risk records of
\* different levels.
C20_Witness ==
    \E t, u \in DOMAIN risks :
        /\ trades[t].symbol # trades[u].symbol
        /\ trades[t].quantity # trades[u].quantity
        /\ risks[t].risk_level # risks[u].risk_level

====
